---- MODULE Spec2Model ----
(***************************************************************************)
(* Hi-Low guessing game: the comparator `evaluate` (evaluation.py), the    *)
(* session loop `game_loop` (game_loop.py) and the entry point `main`      *)
(* (cli.py), modelled as one state machine.                                *)
(***************************************************************************)
EXTENDS Integers, Sequences, FiniteSets, TLC

\* ------------------------------------------------------------------ bounds
\* Integers (flags, targets, guesses) range over -MaxInt .. MaxInt.
MaxInt == 2
\* --max-guesses ranges over -1 .. MaxGuesses.
MaxGuesses == 3

IntRange == (0 - MaxInt) .. MaxInt
GuessBudgets == (0 - 1) .. MaxGuesses

\* ------------------------------------------------------- evaluation.py
CORRECT == "correct"
HIGH == "high"
LOW == "low"
Evaluation == {CORRECT, HIGH, LOW}

\* The outcome of a call: a returned value, or an exception raised at `site`
\* carrying `info` (the values its message names).
NoExc == [exc |-> "None", site |-> "None", info |-> <<>>]
Returns(v) == [kind |-> "return", val |-> v, exc |-> "None", site |-> "None", info |-> <<>>]
Raises(e, s, i) == [kind |-> "raise", val |-> "None", exc |-> e, site |-> s, info |-> i]
Exc(r) == [exc |-> r.exc, site |-> r.site, info |-> r.info]

\* evaluate with HIGH and LOW exchanged.
evaluate_swapped(v, g, lo, hi) ==
    IF v < lo \/ v > hi
    THEN Raises("ValueError", "evaluate", <<v, lo, hi>>)
    ELSE IF g = v THEN Returns(CORRECT)
    ELSE IF g > v THEN Returns(LOW)
    ELSE Returns(HIGH)

\* evaluate with an open range check: the bounds themselves are rejected.
evaluate_open_range(v, g, lo, hi) ==
    IF v <= lo \/ v >= hi
    THEN Raises("ValueError", "evaluate", <<v, lo, hi>>)
    ELSE IF g = v THEN Returns(CORRECT)
    ELSE IF g > v THEN Returns(HIGH)
    ELSE Returns(LOW)

\* evaluate validating the guess against the bounds as well as the target.
evaluate_checks_guess(v, g, lo, hi) ==
    IF v < lo \/ v > hi \/ g < lo \/ g > hi
    THEN Raises("ValueError", "evaluate", <<v, lo, hi>>)
    ELSE IF g = v THEN Returns(CORRECT)
    ELSE IF g > v THEN Returns(HIGH)
    ELSE Returns(LOW)

evaluate(v, g, lo, hi) ==
    IF v < lo \/ v > hi
    THEN Raises("ValueError", "evaluate", <<v, lo, hi>>)
    ELSE IF g = v THEN Returns(CORRECT)
    ELSE IF g > v THEN Returns(HIGH)
    ELSE Returns(LOW)

\* Python binds the positional arguments to evaluate's four required
\* parameters before its body runs; any other count is a TypeError.
evaluate_arity == 4
call_evaluate(args) ==
    IF Len(args) # evaluate_arity
    THEN Raises("TypeError", "call evaluate", <<>>)
    ELSE evaluate(args[1], args[2], args[3], args[4])

\* ------------------------------------------------------------------ state
VARIABLES
    pc,          \* position of the program
    min_value,   \* --min-value   (in SpecEvaluate: evaluate's min_value)
    max_value,   \* --max-value   (in SpecEvaluate: evaluate's max_value)
    max_guesses, \* --max-guesses
    seed,        \* --seed: <<>> for None, <<s>> for an integer
    value,       \* the target
    iter,        \* items the for loop has taken from range(max_guesses)
    guess,       \* game_loop's local `guess`
    guesses,     \* the guesses int(input()) has returned so far, in order
    result,      \* outcome of the last call of evaluate
    out,         \* standard output, a sequence of lines
    won,         \* game_loop's return value: "None" until it returns
    exc,         \* the exception in flight, NoExc when none
    exit_code    \* the process exit code: "None" while running

vars == <<pc, min_value, max_value, max_guesses, seed, value, iter, guess,
          guesses, result, out, won, exc, exit_code>>

\* A printed line: who printed it, the literal text and the interpolated values.
Line(by, text, args) == [by |-> by, text |-> text, args |-> args]

\* What one input() call can meet: a well-formed integer line, a line int()
\* rejects, or end of input.
InputEvents ==
    [kind : {"int"}, n : IntRange] \cup {[kind |-> "malformed", n |-> 0], [kind |-> "eof", n |-> 0]}

Seeds == {<<>>, <<0>>}

\* ------------------------------------------------------------------ cli.py
Init ==
    /\ pc = "main"
    /\ min_value \in IntRange
    /\ max_value \in IntRange
    /\ max_guesses \in GuessBudgets
    /\ seed \in Seeds
    /\ value = 0
    /\ iter = 0
    /\ guess = 0
    /\ guesses = <<>>
    /\ result = Returns("None")
    /\ out = <<>>
    /\ won = "None"
    /\ exc = NoExc
    /\ exit_code = "None"

\* cli.py 46-50: the four parameter lines.
ParamLines ==
    << Line("main", "min_value: ", <<min_value>>),
       Line("main", "max_value: ", <<max_value>>),
       Line("main", "max_guesses: ", <<max_guesses>>),
       IF seed = <<>> THEN Line("main", "seed: None", <<>>)
                      ELSE Line("main", "seed: ", seed) >>

\* randint with an exclusive-style upper end shifted by one: a <= N <= b + 1.
randint_past_max(a, b) ==
    IF a > b THEN {Raises("ValueError", "randint", <<a, b>>)}
    ELSE {Returns(n) : n \in a .. b + 1}

\* random.randint(a, b): some N with a <= N <= b; ValueError when a > b.
randint(a, b) ==
    IF a > b THEN {Raises("ValueError", "randint", <<a, b>>)}
    ELSE {Returns(n) : n \in a .. b}

\* cli.py 44-60: print the parameters, seed, draw the target, call game_loop.
main_start ==
    /\ pc = "main"
    /\ out' = out \o ParamLines
    /\ \E r \in randint(min_value, max_value) :
         IF r.kind = "raise"
         THEN /\ exc' = Exc(r)
              /\ pc' = "raised"
              /\ UNCHANGED value
         ELSE /\ value' = r.val
              /\ pc' = "for"
              /\ UNCHANGED exc
    /\ UNCHANGED <<min_value, max_value, max_guesses, seed, iter, guess,
                   guesses, result, won, exit_code>>

\* ------------------------------------------------------------ game_loop.py
\* for_iterate running one iteration too many (range(max_guesses + 1)).
for_iterate_off_by_one ==
    /\ pc = "for"
    /\ iter <= max_guesses
    /\ iter' = iter + 1
    /\ pc' = "input"
    /\ UNCHANGED <<min_value, max_value, max_guesses, seed, value, guess,
                   guesses, result, out, won, exc, exit_code>>

\* for_iterate moving the target at each iteration.
for_iterate_moves_target ==
    /\ pc = "for"
    /\ iter < max_guesses
    /\ iter' = iter + 1
    /\ value' = value + 1
    /\ pc' = "input"
    /\ UNCHANGED <<min_value, max_value, max_guesses, seed, guess,
                   guesses, result, out, won, exc, exit_code>>

\* game_loop.py 21: the for loop takes the next item of range(max_guesses).
for_iterate ==
    /\ pc = "for"
    /\ iter < max_guesses
    /\ iter' = iter + 1
    /\ pc' = "input"
    /\ UNCHANGED <<min_value, max_value, max_guesses, seed, value, guess,
                   guesses, result, out, won, exc, exit_code>>

\* return_False returning True when the range is exhausted.
return_True_on_exhaustion ==
    /\ pc = "for"
    /\ ~(iter < max_guesses)
    /\ won' = "True"
    /\ pc' = "returned"
    /\ UNCHANGED <<min_value, max_value, max_guesses, seed, value, iter, guess,
                   guesses, result, out, exc, exit_code>>

\* game_loop.py 21, 29: range(max_guesses) is exhausted, return False.
return_False ==
    /\ pc = "for"
    /\ ~(iter < max_guesses)
    /\ won' = "False"
    /\ pc' = "returned"
    /\ UNCHANGED <<min_value, max_value, max_guesses, seed, value, iter, guess,
                   guesses, result, out, exc, exit_code>>

\* read_guess skipping a line int() rejects and going on with the loop.
read_guess_skips_bad_line ==
    /\ pc = "input"
    /\ \E e \in InputEvents :
         CASE e.kind = "int" ->
                /\ guess' = e.n
                /\ guesses' = Append(guesses, e.n)
                /\ pc' = "evaluate"
                /\ UNCHANGED exc
           [] e.kind = "malformed" ->
                /\ pc' = "for"
                /\ UNCHANGED <<guess, guesses, exc>>
           [] e.kind = "eof" ->
                /\ exc' = [exc |-> "EOFError", site |-> "input", info |-> <<>>]
                /\ pc' = "raised"
                /\ UNCHANGED <<guess, guesses>>
    /\ UNCHANGED <<min_value, max_value, max_guesses, seed, value, iter,
                   result, out, won, exit_code>>

\* game_loop.py 22: guess = int(input()).
read_guess ==
    /\ pc = "input"
    /\ \E e \in InputEvents :
         CASE e.kind = "int" ->
                /\ guess' = e.n
                /\ guesses' = Append(guesses, e.n)
                /\ pc' = "evaluate"
                /\ UNCHANGED exc
           [] e.kind = "malformed" ->
                /\ exc' = [exc |-> "ValueError", site |-> "int", info |-> <<>>]
                /\ pc' = "raised"
                /\ UNCHANGED <<guess, guesses>>
           [] e.kind = "eof" ->
                /\ exc' = [exc |-> "EOFError", site |-> "input", info |-> <<>>]
                /\ pc' = "raised"
                /\ UNCHANGED <<guess, guesses>>
    /\ UNCHANGED <<min_value, max_value, max_guesses, seed, value, iter,
                   result, out, won, exit_code>>

\* evaluate_and_print catching the exception of the call and going on.
evaluate_and_print_swallows ==
    /\ pc = "evaluate"
    /\ LET r == call_evaluate(<<value, guess>>) IN
         /\ result' = r
         /\ IF r.kind = "raise"
            THEN /\ pc' = "for"
                 /\ UNCHANGED <<out, won, exc>>
            ELSE /\ out' = Append(out, Line("game_loop", r.val, <<>>))
                 /\ UNCHANGED exc
                 /\ IF r.val = CORRECT
                    THEN won' = "True" /\ pc' = "returned"
                    ELSE pc' = "for" /\ UNCHANGED won
    /\ UNCHANGED <<min_value, max_value, max_guesses, seed, value, iter, guess,
                   guesses, exit_code>>

\* game_loop.py 23-27: evaluate the guess, print the label, return True when
\* it is CORRECT; an exception of the call leaves the function at once.
evaluate_and_print ==
    /\ pc = "evaluate"
    /\ LET r == call_evaluate(<<value, guess>>) IN
         /\ result' = r
         /\ IF r.kind = "raise"
            THEN /\ exc' = Exc(r)
                 /\ pc' = "raised"
                 /\ UNCHANGED <<out, won>>
            ELSE /\ out' = Append(out, Line("game_loop", r.val, <<>>))
                 /\ UNCHANGED exc
                 /\ IF r.val = CORRECT
                    THEN won' = "True" /\ pc' = "returned"
                    ELSE pc' = "for" /\ UNCHANGED won
    /\ UNCHANGED <<min_value, max_value, max_guesses, seed, value, iter, guess,
                   guesses, exit_code>>

\* ------------------------------------------------------------------ cli.py
\* cli.py 60-66: game_loop has returned; print the result line and finish.
main_result ==
    /\ pc = "returned"
    /\ out' = Append(out, Line("main", IF won = "True" THEN "You won" ELSE "You lost", <<>>))
    /\ exit_code' = 0
    /\ pc' = "exit"
    /\ UNCHANGED <<min_value, max_value, max_guesses, seed, value, iter, guess,
                   guesses, result, won, exc>>

\* cli.py 69-70: nothing catches an exception that leaves main; the
\* interpreter reports it on standard error and exits with status 1.
uncaught_exit_code == 1
main_uncaught ==
    /\ pc = "raised"
    /\ exit_code' = uncaught_exit_code
    /\ pc' = "exit"
    /\ UNCHANGED <<min_value, max_value, max_guesses, seed, value, iter, guess,
                   guesses, result, out, won, exc>>

Next ==
    \/ main_start
    \/ for_iterate
    \/ return_False
    \/ read_guess
    \/ evaluate_and_print
    \/ main_result
    \/ main_uncaught

Spec == Init /\ [][Next]_vars

\* ------------------------------------------- the comparator called directly
\* tests/test_evaluation.py calls evaluate(value, guess, min_value, max_value)
\* with four arguments; the inputs are drawn from IntRange.
InitEvaluate ==
    /\ pc = "call"
    /\ value \in IntRange
    /\ guess \in IntRange
    /\ min_value \in IntRange
    /\ max_value \in IntRange
    /\ max_guesses = 0
    /\ seed = <<>>
    /\ iter = 0
    /\ guesses = <<>>
    /\ result = Returns("None")
    /\ out = <<>>
    /\ won = "None"
    /\ exc = NoExc
    /\ exit_code = "None"

evaluate_call ==
    /\ pc = "call"
    /\ result' = call_evaluate(<<value, guess, min_value, max_value>>)
    /\ pc' = "called"
    /\ UNCHANGED <<min_value, max_value, max_guesses, seed, value, iter, guess,
                   guesses, out, won, exc, exit_code>>

NextEvaluate == evaluate_call

SpecEvaluate == InitEvaluate /\ [][NextEvaluate]_vars

\* ------------------------------------------------------------- properties
\* The three-way comparison of a guess g with a target t, as the claims word it.
ThreeWay(t, g) == IF g = t THEN "correct" ELSE IF g > t THEN "high" ELSE "low"

\* The lines game_loop printed, and their texts.
LoopLines == SelectSeq(out, LAMBDA l : l.by = "game_loop")
LoopTexts == [i \in 1 .. Len(LoopLines) |-> LoopLines[i].text]
\* The result lines of main.
ResultLines == SelectSeq(out, LAMBDA l : l.text \in {"You won", "You lost"})

\* game_loop has been called (the target was drawn).
InSession == pc # "main" /\ exc.site # "randint"
\* Every read so far met a well-formed integer.
InputWellFormed == exc.site \notin {"int", "input"}
\* No guess is waiting between its read and its evaluation.
Settled == InSession /\ pc # "evaluate"
Max0(n) == IF n > 0 THEN n ELSE 0

\* C1: for a target within its bounds, evaluate returns Correct iff g = t,
\* TooHigh iff g > t, TooLow iff g < t, and exactly one of the three.
C1_ThreeWayOutcome ==
    (pc = "called" /\ min_value <= value /\ value <= max_value) =>
        /\ result.kind = "return"
        /\ result.val \in Evaluation
        /\ (result.val = CORRECT <=> guess = value)
        /\ (result.val = HIGH <=> guess > value)
        /\ (result.val = LOW <=> guess < value)
        /\ Cardinality({o \in Evaluation : result.val = o}) = 1

C1_Witness ==
    /\ pc = "called"
    /\ min_value <= value /\ value <= max_value
    /\ guess > value
    /\ value < 0
    /\ result.val = HIGH

\* C2: a target outside [min, max] makes evaluate fail with a ValueError
\* naming the value and the bounds, for every guess (also guess = target),
\* and no outcome is returned; a target in the closed range gets the
\* unchecked three-way comparison.
C2_RangeCheck ==
    pc = "called" =>
        IF value < min_value \/ value > max_value
        THEN /\ result.kind = "raise"
             /\ result.exc = "ValueError"
             /\ result.info = <<value, min_value, max_value>>
             /\ result.val \notin Evaluation
        ELSE result = Returns(ThreeWay(value, guess))

C2_Witness ==
    /\ pc = "called"
    /\ value > max_value
    /\ min_value <= max_value
    /\ guess = value
    /\ result.exc = "ValueError"

\* C3: the lines game_loop has written are, in order, the labels of the
\* guesses it consumed.
C3_LabelsOfGuesses ==
    Settled => LoopTexts = [i \in 1 .. Len(guesses) |-> ThreeWay(value, guesses[i])]

\* C4: when the k-th guess equals the target, game_loop prints "correct",
\* returns True and has consumed exactly k guesses.
C4_WinOnCorrectGuess ==
    (Settled /\ \E k \in 1 .. Len(guesses) : guesses[k] = value) =>
        /\ won = "True"
        /\ \A k \in 1 .. Len(guesses) : guesses[k] = value <=> k = Len(guesses)
        /\ Len(LoopTexts) = Len(guesses)
        /\ LoopTexts[Len(LoopTexts)] = "correct"

\* C5: when none of the first max_guesses guesses equals the target
\* (max_guesses >= 1), game_loop ends Lost: it returns False after exactly
\* max_guesses guesses and max_guesses lines, none of them "correct".
C5_LostAfterMaxGuesses ==
    (/\ InSession
     /\ pc \in {"returned", "raised", "exit"}
     /\ InputWellFormed
     /\ max_guesses >= 1
     /\ \A k \in 1 .. Len(guesses) : guesses[k] # value) =>
        /\ won = "False"
        /\ Len(guesses) = max_guesses
        /\ Len(LoopTexts) = max_guesses
        /\ \A i \in 1 .. Len(LoopTexts) : LoopTexts[i] # "correct"

\* C6 as stated: the number of guesses read is at most max_guesses.
C6_AtMostMaxGuesses ==
    InSession => Len(guesses) <= max_guesses

\* C6 amended: the number of guesses read, and of reads attempted, is at
\* most max_guesses when max_guesses >= 0, and zero when it is negative.
C6_AtMostMaxGuessesOrZero ==
    InSession => (Len(guesses) <= iter /\ iter <= Max0(max_guesses))

C6_Witness ==
    /\ InSession
    /\ max_guesses >= 1
    /\ Len(guesses) = max_guesses

\* C7: one outcome line per guess consumed, printed before the next read:
\* at the read of guess i+1 exactly i lines are printed, and the loop
\* writes nothing but the labels.
C7_OneLinePerGuess ==
    /\ pc = "input" => (Len(guesses) = iter - 1 /\ Len(LoopLines) = iter - 1)
    /\ Settled => Len(LoopLines) = Len(guesses)
    /\ \A i \in 1 .. Len(LoopLines) :
         LoopLines[i].text \in Evaluation /\ LoopLines[i].args = <<>>

\* C8: every guess read is evaluated to an Outcome; with well-formed
\* input the session never reaches an error state.
C8_NoErrorState ==
    (InSession /\ InputWellFormed) =>
        /\ exc = NoExc
        /\ pc # "raised"
        /\ (Settled /\ guesses # <<>>) =>
             (result.kind = "return" /\ result.val \in Evaluation)

\* C9: once the session is over the entry point has emitted exactly one
\* result line, "You won" iff the loop returned True and "You lost" iff it
\* returned False, and none before the loop returned.
C9_OneResultLine ==
    /\ (pc = "exit" /\ InSession /\ InputWellFormed) =>
          /\ Len(ResultLines) = 1
          /\ (ResultLines[1].text = "You won" <=> won = "True")
          /\ (ResultLines[1].text = "You lost" <=> won = "False")
          /\ out[Len(out)] = ResultLines[1]
    /\ ResultLines # <<>> => won # "None"

\* C10: a run with min-value <= max-value, max-guesses >= 1 and
\* well-formed guesses ends with exit code 0, won or lost.
C10_ExitCodeZero ==
    (/\ pc = "exit"
     /\ min_value <= max_value
     /\ max_guesses >= 1
     /\ InputWellFormed) => exit_code = 0

\* The last call of the comparator raised.
ComparatorRaised == Settled /\ result.kind = "raise"
\* The last read of the session failed: an iteration was begun and its
\* read returned no guess.
ReadFailed == InSession /\ pc # "input" /\ Len(guesses) < iter

\* C11: an error raised by the call of the comparator propagates out of
\* game_loop uncaught: it is the exception in flight, no line is printed
\* for the guess, no value is returned, and from then on nothing is read,
\* printed or returned by the loop.
C11_ComparatorErrorPropagates ==
    /\ [](ComparatorRaised =>
            /\ pc \in {"raised", "exit"}
            /\ exc = Exc(result)
            /\ won = "None"
            /\ Len(LoopLines) = Len(guesses) - 1
            /\ ResultLines = <<>>)
    /\ [][ComparatorRaised =>
            (guesses' = guesses /\ out' = out /\ won' = won /\ iter' = iter)]_vars

C11_Witness ==
    /\ ComparatorRaised
    /\ pc = "exit"
    /\ Len(guesses) = 1
    /\ exc.site = "call evaluate"

\* C13: a session with max_guesses >= 0 and well-formed input ends with
\* game_loop returning: True when a guess was correct, False otherwise.
C13_ReturnsWonOrLost ==
    (/\ InSession
     /\ pc \in {"raised", "exit"}
     /\ InputWellFormed
     /\ max_guesses >= 0) =>
        /\ won \in {"True", "False"}
        /\ won = "True" <=> \E k \in 1 .. Len(guesses) : guesses[k] = value

\* C14: the range check looks at the target only: evaluate raises iff the
\* target is outside [min, max], and a guess outside the bounds still gets
\* its three-way comparison.
C14_GuessNotValidated ==
    pc = "called" =>
        /\ result.kind = "raise" <=> (value < min_value \/ value > max_value)
        /\ (min_value <= value /\ value <= max_value
              /\ (guess < min_value \/ guess > max_value)) =>
             (result.kind = "return" /\ result.val = ThreeWay(value, guess))

C14_Witness ==
    /\ pc = "called"
    /\ min_value <= value /\ value <= max_value
    /\ guess > max_value
    /\ result.val = HIGH

\* C15: no step of the session changes the target.
C15_TargetFixed ==
    [][pc # "main" => value' = value]_vars

C15_Witness ==
    /\ pc = "evaluate"
    /\ Len(guesses) = 1
    /\ guess # value

\* C16: with max_guesses <= 0 game_loop reads nothing, prints nothing and
\* returns False.
C16_NoGuessesAllowed ==
    (InSession /\ max_guesses <= 0) =>
        /\ iter = 0
        /\ guesses = <<>>
        /\ LoopLines = <<>>
        /\ exc = NoExc
        /\ pc \in {"for", "returned", "exit"}
        /\ pc # "for" => won = "False"

C16_Witness ==
    /\ InSession
    /\ max_guesses < 0
    /\ pc = "returned"
    /\ won = "False"

\* C17: a failed read (malformed line or end of input) at iteration k ends
\* the loop with the error in flight: no line for that read, no return
\* value, the k-1 earlier lines unchanged, and nothing read afterwards.
C17_ReadFailureFailsFast ==
    /\ [](ReadFailed =>
            /\ pc \in {"raised", "exit"}
            /\ exc.site \in {"int", "input"}
            /\ won = "None"
            /\ Len(guesses) = iter - 1
            /\ Len(LoopLines) = iter - 1
            /\ ResultLines = <<>>)
    /\ [][ReadFailed =>
            (guesses' = guesses /\ out' = out /\ won' = won /\ iter' = iter)]_vars

C17_Witness ==
    /\ ReadFailed
    /\ pc = "exit"
    /\ exc.site = "int"
    /\ exc.exc = "ValueError"

\* C18: the target main passes to game_loop lies within
\* [min_value, max_value].
C18_TargetWithinBounds ==
    InSession => (min_value <= value /\ value <= max_value)

C18_Witness ==
    /\ pc = "for"
    /\ min_value < max_value
    /\ value = max_value
    /\ seed # <<>>

====
